---- MODULE Spec2Model ----
(***************************************************************************)
(* Manchester encoder of main.c (ATtiny817, TCB0 periodic interrupt).      *)
(* Two execution contexts: the control loop of main() (program counter pc) *)
(* and the interrupt handler ISR(TCB0_INT_vect), which runs to completion  *)
(* and can fire between any two steps of the control loop while the timer  *)
(* is enabled.                                                             *)
(***************************************************************************)
EXTENDS Integers, Sequences, FiniteSets, TLC

\* ---------------------------------------------------------------- constants
START_BYTE == 85
TRANSMIT_BUFFER_SIZE == 255
BAUD_RATE == 50000
GuardNumerator == 2048000
Uint8Mod == 256

\* ------------------------------------------------------------------- bounds
\* longest of the short payloads
MaxShortLen == 2

\* byte values the short payloads are built from: 0x00 and 0xA5 (bits 7 and 0 set)
ByteVals == {0, 165}

ShortPayloads == UNION {[1..n -> ByteVals] : n \in 0..MaxShortLen}

\* a payload of TRANSMIT_BUFFER_SIZE bytes, one more than capacity minus framing
LongPayload == [k \in 1..TRANSMIT_BUFFER_SIZE |-> 195]

Payloads == ShortPayloads \cup {LongPayload}

VARIABLES
  ieee,                    \* TRUE: ENCODING_IEEE build, FALSE: ENCODING_G_E_THOMAS
  pc,                      \* position of the control loop
  transmit_buffer,         \* [0..TRANSMIT_BUFFER_SIZE-1 -> 0..255]
  transmit_buffer_length,  \* uint8
  sending_in_progress,     \* uint8 flag
  tcb_enabled,             \* TCB0.CTRLA & TCB_ENABLE_bm
  pin,                     \* level of PA4
  prev, clk, transmit_buffer_index, bit_index,   \* statics of the ISR
  transmit_data,           \* argument of the running send_encoded_data call
  i,                       \* loop counter of the copy loop
  d,                       \* loop counter of the guard delay loop
  ret,                     \* last value returned by send_encoded_data, -1 during a call
  \* observers (not program state)
  mid_edges,               \* pin level before each clock-edge toggle of the packet armed by the control loop
  guard_count,             \* delay increments executed since the timer was last disabled
  phase                    \* boot / loading / armed / done / dirty / dirtydone

vars == <<ieee, pc, transmit_buffer, transmit_buffer_length, sending_in_progress,
          tcb_enabled, pin, prev, clk, transmit_buffer_index, bit_index,
          transmit_data, i, d, ret, mid_edges, guard_count, phase>>

isrvars == <<prev, clk, transmit_buffer_index, bit_index>>
mainlocals == <<transmit_data, i, d, ret>>

\* ------------------------------------------------------- pure helper functions
Pow2(n) == IF n = 0 THEN 1 ELSE IF n = 1 THEN 2 ELSE IF n = 2 THEN 4
           ELSE IF n = 3 THEN 8 ELSE IF n = 4 THEN 16 ELSE IF n = 5 THEN 32
           ELSE IF n = 6 THEN 64 ELSE 128

\* (transmit_buffer[transmit_buffer_index] & (1 << bit_index)) > 0
NextBit(buf, idx, bit) == IF ((buf[idx] \div Pow2(bit)) % 2) = 1 THEN 1 ELSE 0

\* the rest level of the G.E. Thomas build used in both builds
RestLevelLow(conv) == 0

\* rest level of the pin: OUTCLR for G.E. Thomas, OUTSET for IEEE
RestLevel(conv) == IF conv THEN 1 ELSE 0

\* static uint8_t prev = 0 / 1
PrevSeed(conv) == IF conv THEN 1 ELSE 0

\* the guard count rounded up instead of truncated
GuardItersCeil == ((GuardNumerator + BAUD_RATE - 1) \div BAUD_RATE) % Uint8Mod

\* i = 2048000 / BAUD_RATE, stored in a uint8_t
GuardIters == (GuardNumerator \div BAUD_RATE) % Uint8Mod

\* the busy test dropped, and the busy test inverted
SendAcceptsAlways(sip) == TRUE
SendAcceptsInverted(sip) == sip # 0

\* if (!sending_in_progress)
SendAccepts(sip) == sip = 0

\* transmit_buffer[i] = transmit_data[i]
CopyByte(buf, data, k) == [buf EXCEPT ![k] = data[k + 1]]

\* transmit_buffer_length = num_bytes + 1  (uint8_t)
NewLength(n) == (n + 1) % Uint8Mod

\* clock edge with the pin driven high instead of toggled
ClockEdgeSet(s) == [s EXCEPT !.clk = 0, !.pin = 1]

\* clock edge that also steps the bit counter
ClockEdgeStepsBit(s) == [s EXCEPT !.clk = 0, !.pin = 1 - s.pin, !.bit = (s.bit + 7) % 8]

\* if (clk) branch: clk = 0; PORTA.OUTTGL = PIN4_bm
ClockEdge(s) == [s EXCEPT !.clk = 0, !.pin = 1 - s.pin]

\* end-of-packet test off by one
PacketDoneLate(idx1, len) == idx1 > len

\* ++transmit_buffer_index >= transmit_buffer_length
PacketDone(idx1, len) == idx1 >= len

\* else branch: the data edge, with the end-of-packet handling
DataEdge(s) ==
  LET next_bit == NextBit(s.buf, s.idx, s.bit)
      p1       == IF next_bit = s.prev THEN 1 - s.pin ELSE s.pin
      wrapbyte == s.bit = 0
      idx1     == (s.idx + 1) % Uint8Mod
      last     == wrapbyte /\ PacketDone(idx1, s.len)
  IN [s EXCEPT
        !.pin  = IF last THEN RestLevel(s.ieee) ELSE p1,
        !.bit  = IF last THEN 6 ELSE IF wrapbyte THEN 7 ELSE s.bit - 1,
        !.idx  = IF last THEN 0 ELSE IF wrapbyte THEN idx1 ELSE s.idx,
        !.en   = IF last THEN 0 ELSE s.en,
        !.sip  = IF last THEN 0 ELSE s.sip,
        !.clk  = 1,
        !.prev = next_bit]

\* one invocation of the interrupt handler, on the record of everything it touches
IsrStep(s) == IF s.clk # 0 THEN ClockEdge(s) ELSE DataEdge(s)

IsrState ==
  [buf |-> transmit_buffer, len |-> transmit_buffer_length, sip |-> sending_in_progress,
   en |-> tcb_enabled, pin |-> pin, prev |-> prev, clk |-> clk,
   idx |-> transmit_buffer_index, bit |-> bit_index, ieee |-> ieee]

\* ---------------------------------------------------------------------- Init
\* What atmel_start_init() leaves behind.  Its code is not part of main.c; it
\* is taken from the specification's Idle state: the timing source disabled
\* and the output pin at the rest level of the convention (low for G.E.
\* Thomas, high for IEEE).
PlatformInit ==
  /\ tcb_enabled = 0
  /\ pin = (IF ieee THEN 1 ELSE 0)

\* The state when main() has returned from atmel_start_init(): the static
\* initialisers of main.c on top of the platform state.
Init ==
  /\ ieee \in BOOLEAN
  /\ pc = "init"
  /\ transmit_buffer = [k \in 0..(TRANSMIT_BUFFER_SIZE - 1) |-> IF k = 0 THEN START_BYTE ELSE 0]
  /\ transmit_buffer_length = 0
  /\ sending_in_progress = 0
  /\ PlatformInit
  /\ prev = PrevSeed(ieee)
  /\ clk = 1
  /\ transmit_buffer_index = 0
  /\ bit_index = 6
  /\ transmit_data = <<>>
  /\ i = 0
  /\ d = 0
  /\ ret = -1
  /\ mid_edges = <<>>
  /\ guard_count = 0
  /\ phase = "boot"

\* ------------------------------------------------------------- control loop
\* TCB0_init(): TCB0.CTRLA |= TCB_ENABLE_bm
TCB0_init ==
  /\ pc = "init"
  /\ tcb_enabled' = 1
  /\ pc' = "outset"
  /\ UNCHANGED <<ieee, transmit_buffer, transmit_buffer_length, sending_in_progress,
                 pin, isrvars, mainlocals, mid_edges, guard_count, phase>>

\* #ifdef ENCODING_IEEE  PORTA.OUTSET = PIN4_bm;
SetInitialLevel ==
  /\ pc = "outset"
  /\ pin' = IF ieee THEN 1 ELSE pin
  /\ pc' = "call"
  /\ UNCHANGED <<ieee, transmit_buffer, transmit_buffer_length, sending_in_progress,
                 tcb_enabled, isrvars, mainlocals, mid_edges, guard_count, phase>>

\* send_encoded_data, else branch: return 0; the caller spins and calls again
SendReject ==
  /\ pc = "call"
  /\ \E p \in Payloads :
       /\ ~SendAccepts(sending_in_progress)
       /\ ret' = 0
       /\ pc' = "call"
  /\ UNCHANGED <<ieee, transmit_buffer, transmit_buffer_length, sending_in_progress,
                 tcb_enabled, pin, isrvars, transmit_data, i, d,
                 mid_edges, guard_count, phase>>

\* send_encoded_data, the test of line 73 succeeds: enter the copy loop
SendAcceptOf(P) ==
  /\ pc = "call"
  /\ \E p \in P :
       /\ SendAccepts(sending_in_progress)
       /\ transmit_data' = p
       /\ i' = 0
       /\ ret' = -1
       /\ pc' = "copy"
  /\ mid_edges' = <<>>
  /\ phase' = IF tcb_enabled = 0 THEN "loading" ELSE "dirty"
  /\ UNCHANGED <<ieee, transmit_buffer, transmit_buffer_length, sending_in_progress,
                 tcb_enabled, pin, isrvars, d, guard_count>>

SendAccept == SendAcceptOf(Payloads)

\* one iteration of the copy loop
SendCopy ==
  /\ pc = "copy"
  /\ i < Len(transmit_data)
  /\ transmit_buffer' = CopyByte(transmit_buffer, transmit_data, i)
  /\ i' = i + 1
  /\ UNCHANGED <<ieee, pc, transmit_buffer_length, sending_in_progress, tcb_enabled, pin,
                 isrvars, transmit_data, d, ret, mid_edges, guard_count, phase>>

\* loop exit and transmit_buffer_length = num_bytes + 1
SendSetLength ==
  /\ pc = "copy"
  /\ i >= Len(transmit_data)
  /\ transmit_buffer_length' = NewLength(Len(transmit_data))
  /\ pc' = "setbusy"
  /\ UNCHANGED <<ieee, transmit_buffer, sending_in_progress, tcb_enabled, pin,
                 isrvars, transmit_data, i, d, ret, mid_edges, guard_count, phase>>

\* sending_in_progress = 1; return 1;
SendSetBusy ==
  /\ pc = "setbusy"
  /\ sending_in_progress' = 1
  /\ ret' = 1
  /\ pc' = "check_sip"
  /\ UNCHANGED <<ieee, transmit_buffer, transmit_buffer_length, tcb_enabled, pin,
                 isrvars, transmit_data, i, d, mid_edges, guard_count, phase>>

\* line 104, first operand: (sending_in_progress)
CheckSip ==
  /\ pc = "check_sip"
  /\ pc' = IF sending_in_progress # 0 THEN "check_en" ELSE "call"
  /\ UNCHANGED <<ieee, transmit_buffer, transmit_buffer_length, sending_in_progress,
                 tcb_enabled, pin, isrvars, mainlocals, mid_edges, guard_count, phase>>

\* the re-enabling branch never taken
TimerOffNever(en) == FALSE

\* !(TCB0.CTRLA & TCB_ENABLE_bm)
TimerOff(en) == en = 0

\* line 104, second operand: !(TCB0.CTRLA & TCB_ENABLE_bm); line 106: i = 2048000 / BAUD_RATE
CheckEnabled ==
  /\ pc = "check_en"
  /\ IF TimerOff(tcb_enabled)
     THEN pc' = "delay" /\ d' = GuardIters
     ELSE pc' = "call" /\ d' = d
  /\ UNCHANGED <<ieee, transmit_buffer, transmit_buffer_length, sending_in_progress,
                 tcb_enabled, pin, isrvars, transmit_data, i, ret,
                 mid_edges, guard_count, phase>>

\* guard loop leaving one iteration early
DelayContinuesShort(k) == k > 1

\* i > 0
DelayContinues(k) == k > 0

\* one iteration of the guard loop: _delay_us(250); i--
Delay ==
  /\ pc = "delay"
  /\ DelayContinues(d)
  /\ d' = d - 1
  /\ guard_count' = guard_count + 1
  /\ UNCHANGED <<ieee, pc, transmit_buffer, transmit_buffer_length, sending_in_progress,
                 tcb_enabled, pin, isrvars, transmit_data, i, ret, mid_edges, phase>>

\* loop exit and TCB0.CTRLA |= TCB_ENABLE_bm
Rearm ==
  /\ pc = "delay"
  /\ ~DelayContinues(d)
  /\ tcb_enabled' = 1
  /\ pc' = "call"
  /\ phase' = IF phase = "loading" /\ sending_in_progress # 0 THEN "armed" ELSE "dirty"
  /\ UNCHANGED <<ieee, transmit_buffer, transmit_buffer_length, sending_in_progress,
                 pin, isrvars, mainlocals, mid_edges, guard_count>>

\* ------------------------------------------------------------- the interrupt
\* ISR(TCB0_INT_vect): fires only while TCB0 is enabled, runs to completion
Tick ==
  /\ tcb_enabled = 1
  /\ LET s == IsrStep(IsrState) IN
       /\ pin' = s.pin
       /\ prev' = s.prev
       /\ clk' = s.clk
       /\ transmit_buffer_index' = s.idx
       /\ bit_index' = s.bit
       /\ tcb_enabled' = s.en
       /\ sending_in_progress' = s.sip
       /\ mid_edges' = IF clk # 0 /\ phase = "armed" THEN Append(mid_edges, pin) ELSE mid_edges
       /\ guard_count' = IF s.en = 0 THEN 0 ELSE guard_count
       /\ phase' = IF s.en = 0
                   THEN (IF phase = "armed" THEN "done" ELSE "dirtydone")
                   ELSE phase
  /\ UNCHANGED <<ieee, pc, transmit_buffer, transmit_buffer_length, mainlocals>>

Next ==
  \/ TCB0_init
  \/ SetInitialLevel
  \/ SendReject
  \/ SendAccept
  \/ SendCopy
  \/ SendSetLength
  \/ SendSetBusy
  \/ CheckSip
  \/ CheckEnabled
  \/ Delay
  \/ Rearm
  \/ Tick

Spec == Init /\ [][Next]_vars

\* payloads of the fair specification: n copies of 0xA5, and the long payload
LivePayloads == {[k \in 1..n |-> 165] : n \in 0..MaxShortLen} \cup {LongPayload}

SendAcceptLive == SendAcceptOf(LivePayloads)

\* the steps of the control loop
LiveMain ==
  \/ TCB0_init
  \/ SetInitialLevel
  \/ SendReject
  \/ SendAcceptLive
  \/ SendCopy
  \/ SendSetLength
  \/ SendSetBusy
  \/ CheckSip
  \/ CheckEnabled
  \/ Delay
  \/ Rearm

LiveNext == LiveMain \/ Tick

\* the configured build: #define ENCODING_G_E_THOMAS
EdgeInit == Init /\ ~ieee

\* The configured build; the enabled timer keeps raising its interrupt and
\* the CPU keeps running main() between interrupts.
FairSpec == EdgeInit /\ [][LiveNext]_vars /\ WF_vars(Tick) /\ WF_vars(LiveMain)

\* the longest valid payload, TRANSMIT_BUFFER_SIZE - 1 bytes
FullPayload == [k \in 1..(TRANSMIT_BUFFER_SIZE - 1) |-> 195]

\* the longest and the shortest valid payload
EdgePayloads == {FullPayload, <<>>}

SendAcceptEdge == SendAcceptOf(EdgePayloads)

EdgeNext ==
  \/ TCB0_init
  \/ SetInitialLevel
  \/ SendReject
  \/ SendAcceptEdge
  \/ SendCopy
  \/ SendSetLength
  \/ SendSetBusy
  \/ CheckSip
  \/ CheckEnabled
  \/ Delay
  \/ Rearm
  \/ Tick

\* the configured build fed with the longest and the shortest valid payload
EdgeSpec == EdgeInit /\ [][EdgeNext]_vars

TypeOK ==
  /\ ieee \in BOOLEAN
  /\ pc \in {"init", "outset", "call", "copy", "setbusy", "check_sip", "check_en", "delay"}
  /\ transmit_buffer \in [0..(TRANSMIT_BUFFER_SIZE - 1) -> 0..255]
  /\ transmit_buffer_length \in 0..255
  /\ sending_in_progress \in 0..1
  /\ tcb_enabled \in 0..1
  /\ pin \in 0..1 /\ prev \in 0..1 /\ clk \in 0..1
  /\ transmit_buffer_index \in 0..(TRANSMIT_BUFFER_SIZE - 1)
  /\ bit_index \in 0..7
  /\ ret \in {-1, 0, 1}

\* ------------------------------------------------------------------ observers
\* a step of the interrupt handler: the control loop does not move
IsTickStep == UNCHANGED <<pc, transmit_data, i, d, ret>>

\* the control loop is between its first write to transmit_buffer and sending_in_progress = 1
InSubmissionWrite == (pc = "copy" /\ i > 0) \/ pc = "setbusy"

SharedBuffer == <<transmit_buffer, transmit_buffer_length, sending_in_progress>>

\* line decoder, G.E. Thomas: mid-bit high-to-low is 1, low-to-high is 0, MSB first
ByteAt(bits, k) ==
  LET b(j) == bits[8 * (k - 1) + j]
  IN 128 * b(1) + 64 * b(2) + 32 * b(3) + 16 * b(4) + 8 * b(5) + 4 * b(6) + 2 * b(7) + b(8)

DecodeThomas(edges) == [k \in 1..(Len(edges) \div 8) |-> ByteAt(edges, k)]

\* --------------------------------------------------------------------- claims

\* C1: send_encoded_data called while sending_in_progress is set returns 0 and
\* leaves transmit_buffer, transmit_buffer_length and sending_in_progress
\* unchanged, whatever the payload.
C1_RejectWhileBusy ==
  [][(pc = "call" /\ sending_in_progress # 0 /\ ~IsTickStep)
       => (ret' = 0 /\ pc' = "call" /\ UNCHANGED SharedBuffer)]_vars

\* a call was rejected while a packet is on the wire
C1_Witness ==
  pc = "call" /\ ret = 0 /\ sending_in_progress = 1 /\ tcb_enabled = 1
  /\ transmit_buffer_index = 1

\* C2: send_encoded_data called while sending_in_progress is clear takes the
\* accepting path and returns 1; sending_in_progress = 1 is its last write,
\* made after the data and the length are in place.
C2_AcceptWhileFree ==
  [][/\ (pc = "call" /\ sending_in_progress = 0 /\ ~IsTickStep)
          => (pc' = "copy" /\ ret' = -1 /\ UNCHANGED SharedBuffer)
     /\ (pc = "copy" /\ pc' # pc) => (pc' = "setbusy" /\ sending_in_progress' = sending_in_progress)
     /\ (pc = "setbusy" /\ pc' # pc)
          => /\ sending_in_progress' = 1 /\ ret' = 1 /\ pc' = "check_sip"
             /\ UNCHANGED <<transmit_buffer, transmit_buffer_length>>]_vars

\* a submission of valid length has just returned 1 with the flag set
C2_Witness ==
  pc = "check_sip" /\ ret = 1 /\ sending_in_progress = 1
  /\ Len(transmit_data) \in 1..(TRANSMIT_BUFFER_SIZE - 1)

\* C3: a submission longer than capacity minus the framing byte is rejected:
\* the call returns 0 and buffer, length and busy flag are unchanged.
C3_OversizeRejected ==
  [][(pc = "call" /\ ~IsTickStep /\ Len(transmit_data') > TRANSMIT_BUFFER_SIZE - 1)
       => (ret' = 0 /\ UNCHANGED SharedBuffer)]_vars

\* C4: under G.E. Thomas, the mid-bit transitions of a packet armed by the
\* control loop decode to the framing byte followed by the submitted payload.
C4_RoundTripThomas ==
  (~ieee /\ phase = "done" /\ Len(transmit_data) \in 1..(TRANSMIT_BUFFER_SIZE - 1))
    => DecodeThomas(mid_edges) = <<START_BYTE>> \o transmit_data

\* C5: in the IEEE build, once the pin has been initialised, every bit read
\* from the buffer of a packet in flight is emitted with IEEE polarity at the
\* following clock edge: 1 as low-to-high, 0 as high-to-low.
C5_PolarityIEEE ==
  [][(ieee /\ pc \notin {"init", "outset"} /\ sending_in_progress = 1
        /\ IsTickStep /\ clk = 1
        /\ ~(transmit_buffer_index = 0 /\ bit_index = 6))
       => (pin' = prev /\ pin = 1 - prev)]_vars

\* C6: the armed encoder starts on a clock edge, its ticks alternate clock
\* edge / data edge, and every clock edge toggles the pin.
C6_SelfClocking ==
  /\ [](tcb_enabled = 0 => clk = 1)
  /\ [][IsTickStep => /\ clk = 1 => (clk' = 0 /\ pin' = 1 - pin)
                      /\ clk = 0 => clk' = 1]_vars

\* a clock edge has acted in the middle of a packet
C6_Witness ==
  clk = 0 /\ tcb_enabled = 1 /\ sending_in_progress = 1
  /\ transmit_buffer_index = 1 /\ bit_index = 3

\* C7: before the first submission is accepted, and whenever the timer is
\* disabled after a packet, the pin is at the rest level of the convention.
C7_IdleLevel ==
  (pc \notin {"init", "outset"} /\ (phase = "boot" \/ tcb_enabled = 0))
    => pin = RestLevel(ieee)

\* C8: the timer is re-enabled only after the complete guard delay has run
\* since the encoder disabled it, and it stays disabled during the delay.
C8_GuardInterval ==
  /\ [](pc = "delay" => tcb_enabled = 0)
  /\ [][(tcb_enabled = 0 /\ tcb_enabled' = 1 /\ pc # "init")
          => (pc = "delay" /\ guard_count = GuardIters)]_vars

\* the control loop has re-armed the timer for a packet after the guard delay
C8_Witness ==
  phase = "armed" /\ tcb_enabled = 1 /\ guard_count = GuardIters /\ pc = "call"

\* C9: no tick of the encoder runs between the first write of a submission
\* and its final write sending_in_progress = 1.
C9_NoTickDuringWrite ==
  [][IsTickStep => ~InSubmissionWrite]_vars

\* C10: transmit_buffer and transmit_buffer_length are never written while
\* sending_in_progress is set.
C10_NoWriteWhileBusy ==
  /\ [](pc = "copy" => sending_in_progress = 0)
  /\ [][(transmit_buffer' # transmit_buffer \/ transmit_buffer_length' # transmit_buffer_length)
          => sending_in_progress = 0]_vars

\* the copy loop has written a byte while the interrupt is running
C10_Witness ==
  pc = "copy" /\ i = 1 /\ tcb_enabled = 1 /\ clk = 0

\* C11: every accepted submission completes: sending_in_progress = 1 leads to
\* sending_in_progress = 0 under fair ticks and a fair control loop, and the
\* control loop never spins on the call with the flag set and the timer off.
C11_RunToCompletion ==
  /\ (sending_in_progress = 1) ~> (sending_in_progress = 0)
  /\ [](~(sending_in_progress = 1 /\ tcb_enabled = 0 /\ pc = "call"))

\* a packet armed by the control loop has run to completion
C11_Witness ==
  phase = "done" /\ sending_in_progress = 0 /\ tcb_enabled = 0
  /\ Len(transmit_data) = 2

\* C12: when an accepted submission of count bytes returns, transmit_buffer[0]
\* is START_BYTE, transmit_buffer[1..count] is the payload and
\* transmit_buffer_length is count + 1.
C12_BufferLayout ==
  (pc = "check_sip" /\ Len(transmit_data) \in 1..(TRANSMIT_BUFFER_SIZE - 1))
    => /\ transmit_buffer[0] = START_BYTE
       /\ \A k \in 1..Len(transmit_data) : transmit_buffer[k] = transmit_data[k]
       /\ transmit_buffer_length = Len(transmit_data) + 1

\* C13: a packet of length L armed by the control loop has produced 8 * L
\* mid-bit transitions when the encoder clears sending_in_progress.
C13_AllBitsEmitted ==
  (phase = "done" /\ Len(transmit_data) \in 0..(TRANSMIT_BUFFER_SIZE - 1))
    => Len(mid_edges) = 8 * transmit_buffer_length

\* C14: the timer is enabled only while a packet is in flight.
C14_EnabledImpliesBusy ==
  tcb_enabled = 1 => sending_in_progress = 1

\* C15: transmit_buffer_index is below transmit_buffer_length whenever
\* sending_in_progress is set.
C15_IndexBelowLength ==
  sending_in_progress = 1 => transmit_buffer_index < transmit_buffer_length

CeilGuard == (GuardNumerator + BAUD_RATE - 1) \div BAUD_RATE

\* guard count rounded down
FloorGuard == GuardNumerator \div BAUD_RATE

\* C17 as stated: the control loop executes ceil(2048000 / BAUD_RATE) delay
\* increments before it re-enables the timer.
C17_GuardCountCeil ==
  [][(tcb_enabled = 0 /\ tcb_enabled' = 1 /\ pc # "init") => guard_count = CeilGuard]_vars

\* C17 amended: the control loop executes floor(2048000 / BAUD_RATE) delay
\* increments, 40 at 50000 baud, a count the 8-bit loop counter holds.
C17_GuardCountFloor ==
  /\ [](FloorGuard < Uint8Mod)
  /\ [][(tcb_enabled = 0 /\ tcb_enabled' = 1 /\ pc # "init") => guard_count = FloorGuard]_vars

\* the timer has been re-enabled after a guard delay and no tick has run yet
C17_Witness ==
  tcb_enabled = 1 /\ guard_count = FloorGuard /\ phase = "armed"
  /\ transmit_buffer_index = 0 /\ bit_index = 6 /\ clk = 1

\* C18: a clock-edge tick toggles the pin, clears clk and leaves the indices,
\* prev, the busy flag, the timer enable, the buffer and the length unchanged.
C18_ClockEdgeFrame ==
  [][(IsTickStep /\ clk = 1)
       => /\ pin' = 1 - pin /\ clk' = 0
          /\ UNCHANGED <<transmit_buffer_index, bit_index, prev, sending_in_progress,
                         tcb_enabled, transmit_buffer, transmit_buffer_length>>]_vars

\* a clock edge has acted on the second byte of a packet
C18_Witness ==
  clk = 0 /\ tcb_enabled = 1 /\ sending_in_progress = 1
  /\ transmit_buffer_index = 1 /\ bit_index = 7

\* C19: when a packet armed by the control loop has completed, prev holds
\* the seed of the convention again.
C19_PrevSeedAtStart ==
  (phase = "done" /\ tcb_enabled = 0) => prev = PrevSeed(ieee)

\* C20: bit_index stays in 0..7 and transmit_buffer_index stays below
\* TRANSMIT_BUFFER_SIZE, so every data edge reads inside transmit_buffer.
C20_ReadsInsideBuffer ==
  /\ bit_index \in 0..7
  /\ transmit_buffer_index \in 0..(TRANSMIT_BUFFER_SIZE - 1)

\* a data edge is about to read the last bit of the last element of the buffer
C20_Witness ==
  tcb_enabled = 1 /\ clk = 0 /\ bit_index = 0
  /\ transmit_buffer_index = TRANSMIT_BUFFER_SIZE - 1
====
